---- MODULE Spec2Model ----
(***************************************************************************)
(* Page-transition and scroll-reveal animation wiring of the site          *)
(* (src/unnamed/part_000): the two Astro lifecycle listeners and the       *)
(* functions they call, over a small model of the DOM, the gsap tween      *)
(* engine and the ScrollTrigger registry.                                  *)
(*                                                                         *)
(* Time is counted in ticks of 50 ms (every duration, delay and overlap of *)
(* the source is a multiple of 50 ms).  Opacity, autoAlpha and scale are   *)
(* kept in percent, y in pixels.                                           *)
(***************************************************************************)
EXTENDS Integers, Sequences, FiniteSets, TLC

VARIABLES phase,     \* "initial" | "loaded" | "swapping" | "swapped"
          gen,       \* number of swaps so far: the generation of the document
          page,      \* the template the document was rendered from
          dom,       \* the elements of the current document
          style,     \* inline style of each element of the document
          triggers,  \* ScrollTrigger registry: triggers on elements of the
                     \* document, in creation order
          leaked,    \* ScrollTrigger registry: how many more triggers it
                     \* holds on elements of documents swapped out
          tweens,    \* tweens the engine is running, in creation order
          exits,     \* one record per pageExitAnimation call
          reveals,   \* per element: how many reveal tweens its triggers started
          nullCalls  \* animation-library calls that received a null target

vars ==
  <<phase, gen, page, dom, style, triggers, leaked, tweens, exits, reveals, nullCalls>>

\* Service cards on the page that has them, swaps per run, direct
\* pageExitAnimation calls per run.
MaxCards == 2
MaxNav == 1
MaxCalls == 2

Ticks(ms) == ms \div 50

Max(a, b) == IF a >= b THEN a ELSE b

----------------------------------------------------------------------------
\* The document.

Elem(g, k, i) == [g |-> g, k |-> k, i |-> i]
Null == [g |-> -1, k |-> "null", i |-> 0]

MAIN_CONTENT_SELECTOR == "main"

\* A page template: which of the selectors of the script its markup holds.
\* persist: #main-content carries transition:persist, so the router moves
\* the node into the next document when that page marks it too.
Page(m, ht, hi, hb, s, f, t, tc, c, keep) ==
  [main |-> m, heroText |-> ht, heroImage |-> hi, heroTrustedBy |-> hb,
   service |-> s, work |-> f, testimonial |-> t,
   testimonialsCta |-> tc, ctaSection |-> c, persist |-> keep]

Pages ==
  { Page(TRUE,  TRUE,  TRUE,  TRUE,  0, 0, 0, FALSE, FALSE, FALSE),
    Page(FALSE, TRUE,  TRUE,  FALSE, 0, 0, 0, FALSE, TRUE,  FALSE),
    Page(FALSE, FALSE, FALSE, TRUE,  MaxCards, 0, 0, FALSE, FALSE, FALSE),
    Page(FALSE, TRUE,  FALSE, TRUE,  0, 2, 0, FALSE, FALSE, FALSE),
    Page(FALSE, FALSE, TRUE,  FALSE, 0, 0, 2, FALSE, FALSE, FALSE),
    Page(TRUE,  FALSE, FALSE, FALSE, 0, 0, 0, TRUE,  TRUE,  FALSE),
    Page(TRUE,  FALSE, FALSE, FALSE, 0, 0, 0, FALSE, FALSE, TRUE),
    Page(FALSE, FALSE, FALSE, FALSE, 0, 0, 0, FALSE, FALSE, FALSE) }

PageElems(p, g) ==
  {Elem(g, "main", 0) : x \in {y \in {0} : p.main}}
  \cup {Elem(g, "heroText", 0) : x \in {y \in {0} : p.heroText}}
  \cup {Elem(g, "heroImage", 0) : x \in {y \in {0} : p.heroImage}}
  \cup {Elem(g, "heroTrustedBy", 0) : x \in {y \in {0} : p.heroTrustedBy}}
  \cup {Elem(g, "service", i) : i \in 0..(p.service - 1)}
  \cup {Elem(g, "work", i) : i \in 0..(p.work - 1)}
  \cup {Elem(g, "testimonial", i) : i \in 0..(p.testimonial - 1)}
  \cup {Elem(g, "testimonialsCta", 0) : x \in {y \in {0} : p.testimonialsCta}}
  \cup {Elem(g, "ctaSection", 0) : x \in {y \in {0} : p.ctaSection}}

\* Style of an element no script has written to (no stylesheet under src/
\* hides any of the selectors).
DefaultStyle ==
  [opacity |-> 100, autoAlpha |-> 100, y |-> 0, scale |-> 100, touched |-> FALSE]

\* document.querySelector: the first match in document order, or null.
querySelector(d, sel) ==
  IF \E e \in d : e.k = sel
  THEN CHOOSE e \in d : e.k = sel /\ \A o \in d : o.k = sel => e.i <= o.i
  ELSE Null

\* gsap.utils.toArray(selector): the matches in document order.
toArray(d, sel) ==
  LET m == {e \in d : e.k = sel}
  IN [j \in 1..Cardinality(m) |->
        CHOOSE e \in m : Cardinality({o \in m : o.i < e.i}) = j - 1]

----------------------------------------------------------------------------
\* The animation library, as the script uses it.  A world w is the record
\* of everything a handler reads and writes.

World ==
  [dom |-> dom, style |-> style, triggers |-> triggers, tweens |-> tweens,
   exits |-> exits, reveals |-> reveals, nullCalls |-> nullCalls]

Write(st, v) ==
  [[p \in DOMAIN st |-> IF p \in DOMAIN v THEN v[p] ELSE st[p]]
     EXCEPT !.touched = TRUE]

\* gsap.set(target, vars): written at once.  A null target is only counted;
\* a target outside the document has no style left to write.
gsapSet(w, target, v) ==
  IF target = Null THEN [w EXCEPT !.nullCalls = Max(@, 1)]
  ELSE IF target \notin w.dom THEN w
  ELSE [w EXCEPT !.style[target] = Write(@, v)]

\* gsap.to(target, vars): a tween that starts `delay` ticks from now, lasts
\* `dur` ticks and reads its start values when it first renders.  cb names
\* the pageExitAnimation call whose completion wrapper it carries (0: none).
gsapTo(w, target, v, dur, delay, ease, kind, cb) ==
  IF target = Null THEN [w EXCEPT !.nullCalls = Max(@, 1)]
  ELSE [w EXCEPT !.tweens = Append(@,
          [target |-> target, vars |-> v, from |-> v, dur |-> dur,
           delay |-> delay, age |-> 0, ease |-> ease, kind |-> kind,
           cb |-> cb])]

\* ScrollTrigger.create({trigger, once, onEnter: () => gsap.to(trigger, ...)}).
ScrollTriggerCreate(w, target, once, v, dur, delay) ==
  IF target = Null THEN [w EXCEPT !.nullCalls = Max(@, 1)]
  ELSE [w EXCEPT !.triggers = Append(@,
          [trigger |-> target, once |-> once, vars |-> v, dur |-> dur,
           delay |-> delay])]

----------------------------------------------------------------------------
\* The functions of the script.

\* Variant: lines 15 and 24 dropped, the query result used unchecked.
pageLoadAnimation_NoNullCheck(w) ==
  LET mainContent == querySelector(w.dom, MAIN_CONTENT_SELECTOR)
  IN gsapTo(gsapSet(w, mainContent, [opacity |-> 0, y |-> 20]),
            mainContent, [opacity |-> 100, y |-> 0],
            Ticks(500), 0, "power2.out", "load", 0)

\* Variant: line 21 with duration 0.2, shorter than the exit tween.
pageLoadAnimation_Short(w) ==
  LET mainContent == querySelector(w.dom, MAIN_CONTENT_SELECTOR)
  IN IF mainContent # Null
     THEN gsapTo(gsapSet(w, mainContent, [opacity |-> 0, y |-> 20]),
                 mainContent, [opacity |-> 100, y |-> 0],
                 Ticks(200), 0, "power2.out", "load", 0)
     ELSE w

pageLoadAnimation(w) ==
  LET mainContent == querySelector(w.dom, MAIN_CONTENT_SELECTOR)
  IN IF mainContent # Null
     THEN gsapTo(gsapSet(w, mainContent, [opacity |-> 0, y |-> 20]),
                 mainContent, [opacity |-> 100, y |-> 0],
                 Ticks(500), 0, "power2.out", "load", 0)
     ELSE w


\* Lines 32-49.  id names the record of this call in w.exits; the callback
\* handed in is a function or not ("undefined").
invokeOnComplete(w, id) ==
  [w EXCEPT !.exits[id].invoked = @ + 1]

exitTweenOnComplete(w, id) ==
  IF w.exits[id].fn THEN invokeOnComplete(w, id) ELSE w

\* Variant: lines 46-48 dropped.
pageExitAnimation_NoFallback(w, onComplete, id) ==
  LET mainContent == querySelector(w.dom, MAIN_CONTENT_SELECTOR)
  IN IF mainContent # Null
     THEN gsapTo(w, mainContent, [opacity |-> 0, y |-> -20],
                 Ticks(300), 0, "power2.in", "exit", id)
     ELSE w

\* Variant: the `else` of line 46 dropped, so the callback is also called
\* as soon as the tween is created.
pageExitAnimation_Eager(w, onComplete, id) ==
  LET mainContent == querySelector(w.dom, MAIN_CONTENT_SELECTOR)
      w1 == IF mainContent # Null
            THEN gsapTo(w, mainContent, [opacity |-> 0, y |-> -20],
                        Ticks(300), 0, "power2.in", "exit", id)
            ELSE w
  IN IF onComplete = "function" THEN invokeOnComplete(w1, id) ELSE w1

pageExitAnimation(w, onComplete, id) ==
  LET mainContent == querySelector(w.dom, MAIN_CONTENT_SELECTOR)
  IN IF mainContent # Null
     THEN gsapTo(w, mainContent, [opacity |-> 0, y |-> -20],
                 Ticks(300), 0, "power2.in", "exit", id)
     ELSE IF onComplete = "function" THEN invokeOnComplete(w, id)
     ELSE w

RECURSIVE serviceCardsEach(_, _, _)
serviceCardsEach(w, cards, n) ==
  IF n = 0 THEN w
  ELSE LET card == cards[n]
           index == n - 1
       IN ScrollTriggerCreate(
            gsapSet(serviceCardsEach(w, cards, n - 1), card,
                    [autoAlpha |-> 0, y |-> 50]),
            card, TRUE, [autoAlpha |-> 100, y |-> 0],
            Ticks(500), Ticks(index * 100))

animateServiceCards(w) ==
  LET cards == toArray(w.dom, "service")
  IN IF Len(cards) = 0 THEN w ELSE serviceCardsEach(w, cards, Len(cards))

RECURSIVE featuredWorkEach(_, _, _)
featuredWorkEach(w, items, n) ==
  IF n = 0 THEN w
  ELSE LET item == items[n]
           index == n - 1
       IN ScrollTriggerCreate(
            gsapSet(featuredWorkEach(w, items, n - 1), item,
                    [autoAlpha |-> 0, y |-> 50, scale |-> 95]),
            item, TRUE, [autoAlpha |-> 100, y |-> 0, scale |-> 100],
            Ticks(500), Ticks(index * 100))

animateFeaturedWorkItems(w) ==
  LET items == toArray(w.dom, "work")
  IN IF Len(items) = 0 THEN w ELSE featuredWorkEach(w, items, Len(items))

\* Variant: line 126 with the 0.1 stagger of the other groups.
RECURSIVE testimonialsEach_ServiceStagger(_, _, _)
testimonialsEach_ServiceStagger(w, cards, n) ==
  IF n = 0 THEN w
  ELSE LET card == cards[n]
           index == n - 1
       IN ScrollTriggerCreate(
            gsapSet(testimonialsEach_ServiceStagger(w, cards, n - 1), card,
                    [autoAlpha |-> 0, y |-> 50]),
            card, TRUE, [autoAlpha |-> 100, y |-> 0],
            Ticks(500), Ticks(index * 100))

RECURSIVE testimonialsEach(_, _, _)
testimonialsEach(w, cards, n) ==
  IF n = 0 THEN w
  ELSE LET card == cards[n]
           index == n - 1
       IN ScrollTriggerCreate(
            gsapSet(testimonialsEach(w, cards, n - 1), card,
                    [autoAlpha |-> 0, y |-> 50]),
            card, TRUE, [autoAlpha |-> 100, y |-> 0],
            Ticks(500), Ticks(index * 150))

animateTestimonials(w) ==
  LET cards == toArray(w.dom, "testimonial")
      cta == querySelector(w.dom, "testimonialsCta")
      w1 == IF Len(cards) > 0 THEN testimonialsEach(w, cards, Len(cards))
            ELSE w
  IN IF cta # Null
     THEN ScrollTriggerCreate(gsapSet(w1, cta, [autoAlpha |-> 0, y |-> 50]),
                              cta, TRUE, [autoAlpha |-> 100, y |-> 0],
                              Ticks(600), 0)
     ELSE w1

\* Variant: line 163 (once: true) dropped.
animateCtaSection_NotOnce(w) ==
  LET section == querySelector(w.dom, "ctaSection")
  IN IF section = Null THEN w
     ELSE ScrollTriggerCreate(
            gsapSet(w, section, [autoAlpha |-> 0, y |-> 50]),
            section, FALSE, [autoAlpha |-> 100, y |-> 0], Ticks(600), 0)

animateCtaSection(w) ==
  LET section == querySelector(w.dom, "ctaSection")
  IN IF section = Null THEN w
     ELSE ScrollTriggerCreate(
            gsapSet(w, section, [autoAlpha |-> 0, y |-> 50]),
            section, TRUE, [autoAlpha |-> 100, y |-> 0], Ticks(600), 0)

\* gsap.timeline({delay}) and tl.to(target, vars, "-=x"): the step is placed
\* `back` ticks before the current end of the timeline.
timeline(delay) == [delay |-> delay, dur |-> 0]

timelineTo(r, target, v, dur, back) ==
  LET start == Max(r.tl.dur - back, 0)
  IN [w |-> gsapTo(r.w, target, v, dur, r.tl.delay + start,
                   "power2.out", "hero", 0),
      tl |-> [r.tl EXCEPT !.dur = Max(@, start + dur)]]

RECURSIVE gsapSetAll(_, _, _, _)
gsapSetAll(w, targets, n, v) ==
  IF n = 0 THEN w
  ELSE gsapSet(gsapSetAll(w, targets, n - 1, v), targets[n], v)

\* Variant: lines 194 and 197 without their position argument, so every
\* step starts when the previous one ends.
heroAnimation_NoOverlap(w) ==
  LET heroText == querySelector(w.dom, "heroText")
      heroImage == querySelector(w.dom, "heroImage")
      heroTrustedBy == querySelector(w.dom, "heroTrustedBy")
  IN IF heroText # Null /\ heroImage # Null
     THEN LET elementsToAnimate ==
                SelectSeq(<<heroText, heroImage, heroTrustedBy>>,
                          LAMBDA el : el # Null)
              w1 == gsapSetAll(w, elementsToAnimate, Len(elementsToAnimate),
                               [autoAlpha |-> 0, y |-> 30])
              r0 == [w |-> w1, tl |-> timeline(Ticks(300))]
              r1 == timelineTo(r0, heroText, [autoAlpha |-> 100, y |-> 0],
                               Ticks(600), 0)
              r2 == timelineTo(r1, heroImage, [autoAlpha |-> 100, y |-> 0],
                               Ticks(600), 0)
              r3 == IF heroTrustedBy # Null
                    THEN timelineTo(r2, heroTrustedBy,
                                    [autoAlpha |-> 100, y |-> 0], Ticks(500), 0)
                    ELSE r2
          IN r3.w
     ELSE w

\* Variant: line 184 with || for &&.
heroAnimation_EitherPrimary(w) ==
  LET heroText == querySelector(w.dom, "heroText")
      heroImage == querySelector(w.dom, "heroImage")
      heroTrustedBy == querySelector(w.dom, "heroTrustedBy")
  IN IF heroText # Null \/ heroImage # Null
     THEN LET elementsToAnimate ==
                SelectSeq(<<heroText, heroImage, heroTrustedBy>>,
                          LAMBDA el : el # Null)
              w1 == gsapSetAll(w, elementsToAnimate, Len(elementsToAnimate),
                               [autoAlpha |-> 0, y |-> 30])
              r0 == [w |-> w1, tl |-> timeline(Ticks(300))]
              r1 == timelineTo(r0, heroText, [autoAlpha |-> 100, y |-> 0],
                               Ticks(600), 0)
              r2 == timelineTo(r1, heroImage, [autoAlpha |-> 100, y |-> 0],
                               Ticks(600), Ticks(400))
              r3 == IF heroTrustedBy # Null
                    THEN timelineTo(r2, heroTrustedBy,
                                    [autoAlpha |-> 100, y |-> 0],
                                    Ticks(500), Ticks(300))
                    ELSE r2
          IN r3.w
     ELSE w

\* Lines 179-200 of the astro:page-load listener.
heroAnimation(w) ==
  LET heroText == querySelector(w.dom, "heroText")
      heroImage == querySelector(w.dom, "heroImage")
      heroTrustedBy == querySelector(w.dom, "heroTrustedBy")
  IN IF heroText # Null /\ heroImage # Null
     THEN LET elementsToAnimate ==
                SelectSeq(<<heroText, heroImage, heroTrustedBy>>,
                          LAMBDA el : el # Null)
          IN IF Len(elementsToAnimate) > 0
             THEN LET w1 == gsapSetAll(w, elementsToAnimate,
                                       Len(elementsToAnimate),
                                       [autoAlpha |-> 0, y |-> 30])
                      r0 == [w |-> w1, tl |-> timeline(Ticks(300))]
                      r1 == timelineTo(r0, heroText,
                                       [autoAlpha |-> 100, y |-> 0],
                                       Ticks(600), 0)
                      r2 == timelineTo(r1, heroImage,
                                       [autoAlpha |-> 100, y |-> 0],
                                       Ticks(600), Ticks(400))
                      r3 == IF heroTrustedBy # Null
                            THEN timelineTo(r2, heroTrustedBy,
                                            [autoAlpha |-> 100, y |-> 0],
                                            Ticks(500), Ticks(300))
                            ELSE r2
                  IN r3.w
             ELSE w
     ELSE w

\* The astro:page-load listener, lines 176-213.
pageLoadListener(w) ==
  animateCtaSection(
    animateTestimonials(
      animateFeaturedWorkItems(
        animateServiceCards(
          heroAnimation(
            pageLoadAnimation(w))))))

\* A call of pageExitAnimation with its bookkeeping: the record of the call
\* is opened before and closed when the function returns.
callPageExit(w, onComplete, byEvent) ==
  LET id == Len(w.exits) + 1
      opened == [w EXCEPT !.exits = Append(@,
                   [fn |-> onComplete = "function",
                    hadMain |-> querySelector(w.dom, MAIN_CONTENT_SELECTOR) # Null,
                    invoked |-> 0, atReturn |-> 0, tweened |-> FALSE,
                    completed |-> FALSE, byEvent |-> byEvent,
                    swapped |-> FALSE, liveAtSwap |-> FALSE])]
      after == pageExitAnimation(opened, onComplete, id)
  IN [after EXCEPT !.exits[id].atReturn = after.exits[id].invoked,
                   !.exits[id].tweened =
                      \E j \in DOMAIN after.tweens : after.tweens[j].cb = id]

\* The astro:before-swap listener, lines 215-228: the callback it passes is
\* an (empty) function.
beforeSwapListener(w) == callPageExit(w, "function", TRUE)

----------------------------------------------------------------------------
\* The tween engine: one tick renders every tween, in creation order.

EaseNum(ease, l, d) ==
  IF ease = "power2.in" THEN l * l ELSE d * d - (d - l) * (d - l)

Interp(a, b, ease, l, d) == a + ((b - a) * EaseNum(ease, l, d)) \div (d * d)

\* One tween, one tick later: [w, t, done].
RenderTween(w, t0) ==
  LET t == [t0 EXCEPT !.age = @ + 1]
      l == t.age - t.delay
      attached == t.target \in w.dom
      from == IF l = 1 /\ attached
              THEN [p \in DOMAIN t.vars |-> w.style[t.target][p]]
              ELSE t.from
      drawn == IF l >= 1 /\ attached
               THEN [w EXCEPT !.style[t.target] =
                       Write(@, [p \in DOMAIN t.vars |->
                                   Interp(from[p], t.vars[p], t.ease, l, t.dur)])]
               ELSE w
      done == l >= t.dur
      called == IF done /\ t.cb # 0
                THEN exitTweenOnComplete(
                       [drawn EXCEPT !.exits[t.cb].completed = TRUE], t.cb)
                ELSE drawn
  IN [w |-> called, t |-> [t EXCEPT !.from = from], done |-> done]

RECURSIVE RenderAll(_, _, _, _)
RenderAll(w, ts, i, kept) ==
  IF i > Len(ts) THEN [w EXCEPT !.tweens = kept]
  ELSE LET r == RenderTween(w, ts[i])
       IN RenderAll(r.w, ts, i + 1,
                    IF r.done THEN kept ELSE Append(kept, r.t))

\* Tweens the model keeps following: those that render into the document
\* and those that carry a completion callback.
Followed(ts, d) == SelectSeq(ts, LAMBDA t : t.target \in d \/ t.cb # 0)

RemoveAt(s, i) == SubSeq(s, 1, i - 1) \o SubSeq(s, i + 1, Len(s))

\* ScrollTrigger calls onEnter of trigger i; a once-trigger kills itself.
fireOnEnter(w, i) ==
  LET tr == w.triggers[i]
      w1 == gsapTo(w, tr.trigger, tr.vars, tr.dur, tr.delay,
                   "power2.out", "reveal", 0)
      w2 == IF tr.trigger \in w.dom
            THEN [w1 EXCEPT !.reveals[tr.trigger] = IF @ < 2 THEN @ + 1 ELSE @]
            ELSE w1
      w3 == IF tr.once THEN [w2 EXCEPT !.triggers = RemoveAt(@, i)] ELSE w2
  IN [w3 EXCEPT !.tweens = Followed(@, w.dom)]

----------------------------------------------------------------------------
Init ==
  /\ phase = "initial"
  /\ gen = 0
  /\ page \in Pages
  /\ dom = PageElems(page, 0)
  /\ style = [e \in dom |-> DefaultStyle]
  /\ triggers = <<>>
  /\ leaked = 0
  /\ tweens = <<>>
  /\ exits = <<>>
  /\ reveals = [e \in dom |-> 0]
  /\ nullCalls = 0

Commit(w) ==
  /\ dom' = w.dom
  /\ style' = w.style
  /\ triggers' = w.triggers
  /\ tweens' = w.tweens
  /\ exits' = w.exits
  /\ reveals' = w.reveals
  /\ nullCalls' = w.nullCalls

\* astro:page-load is dispatched: once for the first document and once
\* after every swap.
PageLoad ==
  /\ phase \in {"initial", "swapped"}
  /\ Commit(pageLoadListener(World))
  /\ phase' = "loaded"
  /\ UNCHANGED <<gen, page, leaked>>

\* 50 ms pass.
Tick ==
  /\ phase # "swapping"
  /\ tweens # <<>>
  /\ Commit(RenderAll(World, tweens, 1, <<>>))
  /\ UNCHANGED <<phase, gen, page, leaked>>

\* The page is scrolled so that the start of trigger i is passed.
EnterViewport(i) ==
  /\ phase # "swapping"
  /\ i \in DOMAIN triggers
  /\ Commit(fireOnEnter(World, i))
  /\ UNCHANGED <<phase, gen, page, leaked>>

\* The scroll position passes the start a leaked trigger was created with:
\* its onEnter tweens a node outside the document, and the trigger, a
\* once-trigger, kills itself.
LeakedEnter ==
  /\ phase # "swapping"
  /\ leaked > 0
  /\ leaked' = leaked - 1
  /\ UNCHANGED <<phase, gen, page, dom, style, triggers, tweens, exits, reveals,
                 nullCalls>>

\* astro:before-swap is dispatched for a navigation.
BeforeSwap ==
  /\ phase = "loaded"
  /\ gen < MaxNav
  /\ Commit(beforeSwapListener(World))
  /\ phase' = "swapping"
  /\ UNCHANGED <<gen, page, leaked>>

\* The router swaps the document right after the before-swap handlers
\* return (lines 222-223: nothing defers it).  The new document is page p;
\* #main-content is a new node unless both pages persist it.  Nothing
\* removes triggers from the registry: those of the old document stay in it.
Swap(p) ==
  LET oldMain == querySelector(dom, MAIN_CONTENT_SELECTOR)
      fresh == PageElems(p, gen + 1)
      persist == page.persist /\ p.persist
      d == IF persist
           THEN (fresh \ {Elem(gen + 1, "main", 0)}) \cup {oldMain}
           ELSE fresh
      id == Len(exits)
  IN /\ phase = "swapping"
     /\ page' = p
     /\ dom' = d
     /\ style' = [e \in d |-> IF e \in dom THEN style[e] ELSE DefaultStyle]
     /\ reveals' = [e \in d |-> 0]
     /\ tweens' = Followed(tweens, d)
     /\ exits' = [exits EXCEPT ![id].swapped = TRUE,
                               ![id].liveAtSwap =
                                  \E j \in DOMAIN tweens : tweens[j].cb = id]
     /\ gen' = gen + 1
     /\ phase' = "swapped"
     /\ triggers' = <<>>
     /\ leaked' = leaked + Len(triggers)
     /\ UNCHANGED nullCalls

\* pageExitAnimation called directly, with any argument.
ExitCall(onComplete) ==
  /\ phase = "loaded"
  /\ Len(exits) < MaxCalls
  /\ Commit(callPageExit(World, onComplete, FALSE))
  /\ UNCHANGED <<phase, gen, page, leaked>>

Next ==
  \/ PageLoad
  \/ Tick
  \/ \E i \in DOMAIN triggers : EnterViewport(i)
  \/ LeakedEnter
  \/ BeforeSwap
  \/ \E p \in Pages : Swap(p)

Spec == Init /\ [][Next]_vars

NextApi ==
  \/ PageLoad
  \/ Tick
  \/ \E onComplete \in {"function", "undefined"} : ExitCall(onComplete)

SpecApi == Init /\ [][NextApi]_vars

\* The gsap ticker keeps running while there are tweens: weak fairness of
\* Tick, with ENABLED <<Tick>>_vars written out as its guard (a tick always
\* ages or removes a tween).
TickFairness ==
  \/ []<>(phase = "swapping" \/ tweens = <<>>)
  \/ []<><<Tick>>_vars

FairSpec == Spec /\ TickFairness

----------------------------------------------------------------------------
\* Vocabulary of the properties.

ScrollKinds == {"service", "work", "testimonial", "testimonialsCta", "ctaSection"}
HeroKinds == {"heroText", "heroImage", "heroTrustedBy"}

TweensOn(e) == {j \in DOMAIN tweens : tweens[j].target = e}
TweensOfKind(e, k) == {j \in TweensOn(e) : tweens[j].kind = k}
TriggersOn(e) == {j \in DOMAIN triggers : triggers[j].trigger = e}
ExitTweensOf(i) == {j \in DOMAIN tweens : tweens[j].cb = i}

Started(t) == t.age >= t.delay
Visible(e) == style[e].autoAlpha = 100 /\ style[e].y = 0
MainShown(e) == style[e].opacity = 100 /\ style[e].y = 0
Untouched(e) == style[e] = DefaultStyle

\* Stagger of a group, in milliseconds per index.
StaggerMs(k) ==
  IF k \in {"service", "work"} THEN 100
  ELSE IF k = "testimonial" THEN 150 ELSE 0

\* The page-load handler has run on the present document.
Handled == phase \in {"loaded", "swapping"}

mainNow == querySelector(dom, MAIN_CONTENT_SELECTOR)
textNow == querySelector(dom, "heroText")
imageNow == querySelector(dom, "heroImage")
trustedNow == querySelector(dom, "heroTrustedBy")

----------------------------------------------------------------------------
\* C1: on every astro:before-swap with #main-content present, the swap of
\* the document happens only after the exit tween has completed (its
\* completion callback fired); never while the tween is still running.
C1_SwapWaitsForExit ==
  \A i \in DOMAIN exits :
    (exits[i].byEvent /\ exits[i].hadMain /\ exits[i].swapped)
      => (~exits[i].liveAtSwap /\ exits[i].completed)

\* C2: pageExitAnimation called with a function while nothing matches
\* #main-content creates no tween and has invoked the callback exactly once
\* by the time it returns (and never again).
C2_NoMainCallsBack ==
  \A i \in DOMAIN exits :
    (exits[i].fn /\ ~exits[i].hadMain)
      => /\ exits[i].atReturn = 1
         /\ exits[i].invoked = 1
         /\ ~exits[i].tweened
         /\ ExitTweensOf(i) = {}

C2_Witness ==
  \E i \in DOMAIN exits :
    exits[i].fn /\ ~exits[i].hadMain /\ exits[i].invoked = 1

\* C3: pageExitAnimation called while #main-content is present tweens it to
\* opacity 0, y -20 over 0.3 s; a function callback has not been invoked
\* while that tween runs and has been invoked exactly once when it is
\* complete; a callback that is no function is never invoked.
C3_CallbackAfterExitTween ==
  \A i \in DOMAIN exits :
    /\ ~exits[i].fn => exits[i].invoked = 0
    /\ exits[i].hadMain =>
         /\ exits[i].tweened
         /\ exits[i].atReturn = 0
         /\ exits[i].completed <=> (ExitTweensOf(i) = {})
         /\ Cardinality(ExitTweensOf(i)) <= 1
         /\ \A j \in ExitTweensOf(i) :
              /\ tweens[j].vars = [opacity |-> 0, y |-> -20]
              /\ tweens[j].dur = Ticks(300)
              /\ tweens[j].age < tweens[j].dur
         /\ exits[i].invoked = IF exits[i].fn /\ exits[i].completed THEN 1 ELSE 0

C3_Witness ==
  \E i \in DOMAIN exits :
    exits[i].fn /\ exits[i].hadMain /\ exits[i].completed /\ exits[i].invoked = 1

\* C4: a selector of the page-load handler that matches nothing is skipped
\* silently: no library call gets a null target, no trigger or tween has one,
\* and every element that is present has all the same been set up by the
\* function in charge of it.
C4_AbsentSelectorSkipped ==
  /\ nullCalls = 0
  /\ \A j \in DOMAIN triggers : triggers[j].trigger \in dom
  /\ \A j \in DOMAIN tweens : tweens[j].target # Null
  /\ Handled =>
       /\ mainNow # Null => style[mainNow].touched
       /\ \A e \in dom :
            e.k \in ScrollKinds =>
              style[e].touched /\ (TriggersOn(e) # {} \/ reveals[e] >= 1)
       /\ (textNow # Null /\ imageNow # Null) =>
            \A e \in dom : e.k \in HeroKinds => style[e].touched

C4_Witness ==
  /\ phase = "loaded"
  /\ mainNow = Null
  /\ textNow = Null
  /\ toArray(dom, "service") = <<>>
  /\ toArray(dom, "work") = <<>>
  /\ \E e \in dom : e.k = "testimonial" /\ TriggersOn(e) # {}

\* C5: a scroll-animated element is first put in its hidden state
\* (autoAlpha 0, y 50), then gets one once-trigger, and its reveal tween
\* exists only after the trigger fired; no element gets a second reveal.
C5_RevealOnceAfterEntry ==
  \A e \in dom :
    e.k \in ScrollKinds =>
      /\ reveals[e] <= 1
      /\ Cardinality(TriggersOn(e)) <= 1
      /\ \A j \in TriggersOn(e) :
           /\ triggers[j].once
           /\ reveals[e] = 0
           /\ style[e].autoAlpha = 0 /\ style[e].y = 50
           /\ TweensOn(e) = {}
      /\ \A j \in TweensOn(e) :
           /\ tweens[j].kind = "reveal"
           /\ reveals[e] = 1
           /\ tweens[j].vars.autoAlpha = 100 /\ tweens[j].vars.y = 0
      /\ Cardinality(TweensOn(e)) <= 1
      /\ Handled => (TriggersOn(e) # {} \/ reveals[e] = 1)

C5_Witness ==
  \E e \in dom :
    /\ e.k = "ctaSection"
    /\ reveals[e] = 1
    /\ TweensOn(e) = {}
    /\ TriggersOn(e) = {}
    /\ Visible(e)

\* C6: nothing registered for a page outlives its document: the registry
\* holds no trigger of a swapped-out document, no tween targets a node
\* outside the document, every element has at most one trigger and the
\* registry holds no more triggers than the document has animated elements.
C6_NothingOutlivesDocument ==
  /\ leaked = 0
  /\ \A j \in DOMAIN tweens : tweens[j].target \in dom
  /\ \A e \in dom : Cardinality(TriggersOn(e)) <= 1
  /\ Len(triggers) + leaked <= Cardinality({e \in dom : e.k \in ScrollKinds})

\* C7: the hero timeline runs text, image, trusted-by in that order: text
\* starts 300 ms after the event, after the main fade-in has started; image
\* starts 400 ms before text ends; trusted-by starts 300 ms before image
\* ends; each step starts no earlier than the previous one starts and
\* before the previous one ends.
C7_HeroTimeline ==
  /\ \A j \in TweensOfKind(textNow, "hero") :
       /\ tweens[j].delay = Ticks(300)
       /\ TweensOfKind(imageNow, "hero") # {}
       /\ \A l \in TweensOfKind(mainNow, "load") :
            tweens[l].age = tweens[j].age => tweens[l].delay < tweens[j].delay
  /\ \A j \in TweensOfKind(imageNow, "hero") :
       /\ tweens[j].age = tweens[j].delay =>
            \E t \in TweensOfKind(textNow, "hero") :
              /\ Started(tweens[t])
              /\ tweens[t].delay + tweens[t].dur - tweens[t].age = Ticks(400)
       /\ \A t \in TweensOfKind(textNow, "hero") :
            Started(tweens[j]) => Started(tweens[t])
       /\ trustedNow # Null => TweensOfKind(trustedNow, "hero") # {}
  /\ \A j \in TweensOfKind(trustedNow, "hero") :
       /\ tweens[j].age = tweens[j].delay =>
            \E t \in TweensOfKind(imageNow, "hero") :
              /\ Started(tweens[t])
              /\ tweens[t].delay + tweens[t].dur - tweens[t].age = Ticks(300)
       /\ \A t \in TweensOfKind(imageNow, "hero") :
            Started(tweens[j]) => Started(tweens[t])

C7_Witness ==
  /\ \E j \in TweensOfKind(trustedNow, "hero") : tweens[j].age = tweens[j].delay
  /\ \E j \in TweensOfKind(imageNow, "hero") : Started(tweens[j])
  /\ \E j \in TweensOfKind(textNow, "hero") : Started(tweens[j])
  /\ TweensOfKind(mainNow, "load") = {}
  /\ mainNow # Null

\* C8: the hero animation is all or nothing: with hero text or hero image
\* absent, no hero element is written to or tweened; with both present,
\* every present hero element is hidden (autoAlpha 0, y 30) and has exactly
\* one reveal step, that ends with the element fully visible.
C8_HeroAllOrNothing ==
  \A e \in dom :
    e.k \in HeroKinds =>
      IF Handled /\ textNow # Null /\ imageNow # Null
      THEN /\ style[e].touched
           /\ Cardinality(TweensOn(e)) = IF Visible(e) THEN 0 ELSE 1
           /\ \A j \in TweensOn(e) :
                /\ tweens[j].kind = "hero"
                /\ tweens[j].vars = [autoAlpha |-> 100, y |-> 0]
                /\ ~Started(tweens[j]) =>
                     style[e].autoAlpha = 0 /\ style[e].y = 30
      ELSE Untouched(e) /\ TweensOn(e) = {}

C8_Witness ==
  /\ phase = "loaded"
  /\ textNow # Null
  /\ imageNow = Null
  /\ trustedNow # Null
  /\ Untouched(trustedNow)

\* C9: the reveal of the card at index i starts i x 100 ms (service, work)
\* or i x 150 ms (testimonial) after the card entered the viewport, so cards
\* of a group that entered together start in document order, that far apart.
C9_StaggerByIndex ==
  /\ \A j \in DOMAIN triggers :
       triggers[j].delay = Ticks(triggers[j].trigger.i * StaggerMs(triggers[j].trigger.k))
  /\ \A j \in DOMAIN tweens :
       tweens[j].kind = "reveal" =>
         /\ tweens[j].delay = Ticks(tweens[j].target.i * StaggerMs(tweens[j].target.k))
         /\ \A l \in DOMAIN tweens :
              ( /\ tweens[l].kind = "reveal"
                /\ tweens[l].target.k = tweens[j].target.k
                /\ tweens[l].age = tweens[j].age
                /\ tweens[j].target.i < tweens[l].target.i )
              => /\ Started(tweens[l]) => Started(tweens[j])
                 /\ (tweens[j].age - tweens[j].delay) - (tweens[l].age - tweens[l].delay)
                      = Ticks((tweens[l].target.i - tweens[j].target.i)
                                * StaggerMs(tweens[j].target.k))

C9_Witness ==
  \E j, l \in DOMAIN tweens :
    /\ tweens[j].kind = "reveal" /\ tweens[l].kind = "reveal"
    /\ tweens[j].target.k = "testimonial" /\ tweens[l].target.k = "testimonial"
    /\ tweens[j].target.i = 0 /\ tweens[l].target.i = 1
    /\ tweens[l].age = tweens[l].delay
    /\ tweens[j].age = Ticks(150)

\* C10: while no before-swap follows a page-load, the page settles with
\* nothing left hidden: #main-content at opacity 1, y 0, every present hero
\* element and every scroll-animated element that entered the viewport at
\* autoAlpha 1, y 0.
Settled ==
  /\ mainNow # Null => MainShown(mainNow)
  /\ \A e \in dom : e.k \in HeroKinds => Visible(e)
  /\ \A e \in dom : (e.k \in ScrollKinds /\ reveals[e] >= 1) => Visible(e)

C10_NothingLeftHidden == (phase = "loaded") ~> (phase # "loaded" \/ Settled)

C10_Witness ==
  /\ phase = "loaded"
  /\ mainNow # Null
  /\ TweensOfKind(mainNow, "exit") # {}
  /\ TweensOfKind(mainNow, "load") # {}
  /\ ~MainShown(mainNow)
====
